---- MODULE Spec2Model ----
(***************************************************************************)
(* ebupotext: format detection and the three extraction state machines of  *)
(* the ebupot text extractor (getEbupotFormatedSignature, extractEbupot,   *)
(* extractAFormatedEbupot, extractBFormatedEbupot, extractCFormatedEbupot, *)
(* ddmmyyyyToIso, splitDocDate), and the request handler of the server     *)
(* around them (handleMainRoute, downloadFile).                            *)
(*                                                                         *)
(* A JavaScript string is a sequence of one-character strings; the empty   *)
(* string is << >>.  String positions are 0-based as in the source; the    *)
(* helpers below translate to the 1-based sequences of TLA+.               *)
(***************************************************************************)
EXTENDS Integers, Sequences, FiniteSets, Bags, TLC

VARIABLES
  input,    \* per worker: the arguments (data, format) of its calls
  frame,    \* per worker: the locals of the extractor call it is running
  results,  \* per worker: the records its finished calls returned, in order
  server    \* main.ts: authCookie, the request in flight and its temporary paths

vars == <<input, frame, results, server>>

----------------------------------------------------------------------------
(* String primitives of the JavaScript runtime, as the extractors use them *)

Min(a, b) == IF a < b THEN a ELSE b
Max(a, b) == IF a > b THEN a ELSE b

\* String.prototype.indexOf(pat): the least 0-based position, or -1.
IndexOf(s, pat) ==
  LET hits == { i \in 0..(Len(s) - Len(pat)) : SubSeq(s, i + 1, i + Len(pat)) = pat }
  IN  IF hits = {} THEN -1 ELSE CHOOSE i \in hits : \A j \in hits : i <= j

\* String.prototype.startsWith(pat)
StartsWith(s, pat) == Len(s) >= Len(pat) /\ SubSeq(s, 1, Len(pat)) = pat

\* String.prototype.substring(a, b): negative arguments count as 0, arguments
\* beyond the length as the length, and the two are swapped when a > b.
Substring(s, a, b) ==
  LET ca == Min(Max(a, 0), Len(s))
      cb == Min(Max(b, 0), Len(s))
  IN  SubSeq(s, Min(ca, cb) + 1, Max(ca, cb))

\* String.prototype.substring(a)
SubstringFrom(s, a) == Substring(s, a, Len(s))

\* String.prototype.slice(a, b): negative arguments count from the end.
Slice(s, a, b) ==
  LET from == IF a < 0 THEN Max(Len(s) + a, 0) ELSE Min(a, Len(s))
      to   == IF b < 0 THEN Max(Len(s) + b, 0) ELSE Min(b, Len(s))
  IN  IF from < to THEN SubSeq(s, from + 1, to) ELSE << >>

\* String.prototype.slice(a)
SliceFrom(s, a) == Slice(s, a, Len(s))

\* s[k] inside an array that is join('')-ed: an index out of range reads
\* undefined, which join renders as the empty string.
CharAt(s, k) == IF k >= 0 /\ k < Len(s) THEN <<s[k + 1]>> ELSE << >>

\* [s[t1], s[t2], ...].join('') for a sequence t of indices
RECURSIVE Pick(_, _)
Pick(s, t) == IF t = << >> THEN << >> ELSE CharAt(s, Head(t)) \o Pick(s, Tail(t))

\* the characters the regular expression \s matches, among those of the model
Whitespace == {" ", "\t", "\n", "\r"}

\* the characters the regular expression \d matches
Digits == {"0", "1", "2", "3", "4", "5", "6", "7", "8", "9"}

\* String.prototype.replace(/\s/g, '')
StripWs(s) == SelectSeq(s, LAMBDA c : c \notin Whitespace)

\* String.prototype.trim()
RECURSIVE TrimLeft(_)
TrimLeft(s) == IF s # << >> /\ Head(s) \in Whitespace THEN TrimLeft(Tail(s)) ELSE s

RECURSIVE TrimRight(_)
TrimRight(s) ==
  IF s # << >> /\ s[Len(s)] \in Whitespace THEN TrimRight(SubSeq(s, 1, Len(s) - 1)) ELSE s

Trim(s) == TrimRight(TrimLeft(s))

\* /^\d+$/.test(s)
IsDigits(s) == s # << >> /\ \A k \in 1..Len(s) : s[k] \in Digits

\* String.prototype.split(/\n/): always at least one (possibly empty) piece
RECURSIVE Split(_)
Split(s) ==
  LET p == IndexOf(s, <<"\n">>)
  IN  IF p = -1 THEN <<s>> ELSE <<SubSeq(s, 1, p)>> \o Split(SubSeq(s, p + 2, Len(s)))

\* Array.prototype.pop(), for its effect on the array
Pop(a) == IF a = << >> THEN a ELSE SubSeq(a, 1, Len(a) - 1)

----------------------------------------------------------------------------
(* String literals of the source *)

SigA ==
  <<"F", "O", "R", "M", "U", "L", "I", "R", " ", "B", "P", "B", "S", "\n", "H", ".", "1", "\n", "H", ".", "2", "\n", "H", ".", "3">>

SigB ==
  <<"F", "O", "R", "M", "U", "L", "I", "R", " ", "B", "P", "B", "S", "\n", "B", "u", "k", "t", "i", " ", "P", "e", "m", "o", "t", "o", "n", "g", "a", "n">>

SigC ==
  <<"F", "O", "R", "M", "U", "L", "I", "R", " ", "B", "P", "B", "S", "\n", "H", ".", "1", "\n", "N", "O", "M", "O", "R">>

AnchorA ==
  <<"D", "o", "k", "u", "m", "e", "n", " ", "R", "e", "f", "e", "r", "e", "n", "s", "i">>

AnchorB ==
  <<"P", "P", "h", " ", "T", "i", "d", "a", "k", " ", "F", "i", "n", "a", "l">>

AnchorC ==
  <<"B", "u", "k", "t", "i", " ", "P", "e", "m", "o", "t", "o", "n", "g", "a", "n", " ", "i", "n", "i", ".">>

L_yyyy ==
  <<"y", "y", "y", "y">>

L_Tanggal ==
  <<"T", "a", "n", "g", "g", "a", "l">>

L_B9 ==
  <<"B", ".", "9">>

L_C1 ==
  <<"C", ".", "1">>

L_NPWP ==
  <<":", "N", "P", "W", "P">>

L_NamaC2 ==
  <<"N", "a", "m", "a", " ", "W", "a", "j", "i", "b", " ", "P", "a", "j", "a", "k", "C", ".", "2", ":">>

L_mmyyyy ==
  <<"m", "m", "y", "y", "y", "y">>

L_C4 ==
  <<"C", ".", "4">>

L_B1B6 ==
  <<"B", ".", "1", "B", ".", "2", "B", ".", "3", "B", ".", "4", "B", ".", "5", "B", ".", "6">>

L_ddmmyyyy ==
  <<"d", "d", "m", "m", "y", "y", "y", "y">>

L_B8 ==
  <<"B", ".", "8">>

L_Identitas ==
  <<"C", ".", " ", "I", "D", "E", "N", "T", "I", "T", "A", "S", " ", "P", "E", "M", "O", "T", "O", "N", "G">>

L_C2Nama ==
  <<"C", ".", "2", "N", "a", "m", "a", " ", "W", "a", "j", "i", "b", " ", "P", "a", "j", "a", "k", ":">>

----------------------------------------------------------------------------
(* Shared utilities *)

\* A date conversion that takes the first two characters for the month
ddmmyyyyToIsoMonthFirst(ddmmyyyy) ==
  LET year  == Substring(ddmmyyyy, 4, 8)
      month == Substring(ddmmyyyy, 0, 2)
      day   == Substring(ddmmyyyy, 2, 4)
  IN  year \o <<"-">> \o month \o <<"-">> \o day

\* ddmmyyyyToIso
ddmmyyyyToIso(ddmmyyyy) ==
  LET year  == Substring(ddmmyyyy, 4, 8)
      month == Substring(ddmmyyyy, 2, 4)
      day   == Substring(ddmmyyyy, 0, 2)
  IN  year \o <<"-">> \o month \o <<"-">> \o day

\* The while loop of splitDocDate: from position i leftwards while i > 0,
\* pushing the characters that are not a space, until 8 are collected.
\* Yields the final i and the collected characters (in push order).
RECURSIVE SplitDocDateLoop(_, _, _)
SplitDocDateLoop(line, i, date) ==
  IF i > 0
  THEN LET pushed == IF line[i + 1] # " " THEN Append(date, line[i + 1]) ELSE date
       IN  IF Len(pushed) >= 8
           THEN [i |-> i, date |-> pushed]
           ELSE SplitDocDateLoop(line, i - 1, pushed)
  ELSE [i |-> i, date |-> date]

\* Array.prototype.reverse()
Reverse(a) == [k \in 1..Len(a) |-> a[Len(a) + 1 - k]]

\* splitDocDate: the pair [docName, isoDate]
splitDocDate(line) ==
  LET scan == SplitDocDateLoop(line, Len(line) - 1, << >>)
  IN  <<Substring(line, 0, scan.i), ddmmyyyyToIso(Reverse(scan.date))>>

\* A detector that tests the layout B signature before the layout A signature
SignatureBFirst(data) ==
  IF IndexOf(data, SigB) > -1 THEN "B"
  ELSE IF IndexOf(data, SigA) > -1 THEN "A"
  ELSE IF IndexOf(data, SigC) > -1 THEN "C"
  ELSE IF Len(Trim(data)) = 0 THEN "Z"
  ELSE "U"

\* getEbupotFormatedSignature
getEbupotFormatedSignature(data) ==
  IF IndexOf(data, SigA) > -1 THEN "A"
  ELSE IF IndexOf(data, SigB) > -1 THEN "B"
  ELSE IF IndexOf(data, SigC) > -1 THEN "C"
  ELSE IF Len(Trim(data)) = 0 THEN "Z"
  ELSE "U"

\* The record every extractor starts from (EbupotExtractedData, all defaults)
NewRecord ==
  [h1 |-> << >>, b1 |-> << >>, b2 |-> << >>, b7 |-> << >>, b8 |-> << >>,
   c1 |-> << >>, c3 |-> << >>]

\* The object literal {} the dispatcher returns for any other format
EmptyObject == [k \in {} |-> << >>]

\* Extractor B, state 7: the index list of the scrambled document date
RandDateTable == <<1, 2, 7, 5, 3, 4, 0, 6>>

\* A taxpayer table that reads index 8 twice and index 4 never
NpwpTableRepeats == <<7, 11, 14, 9, 3, 5, 12, 13, 1, 6, 2, 10, 0, 8, 8>>

\* Extractor B, state 10: the index list of the scrambled taxpayer number
NpwpTable == <<7, 11, 14, 9, 3, 5, 12, 13, 1, 6, 2, 10, 0, 8, 4>>

\* Extractor B, state 12: the index list of the scrambled certificate date
CertDateTable == <<1, 7, 2, 4, 0, 6, 5, 3>>

\* [s[t1], s[t2], s[t3], s[t4], '-', s[t5], s[t6], '-', s[t7], s[t8]].join('')
JoinDate(s, t) ==
  Pick(s, SubSeq(t, 1, 4)) \o <<"-">> \o Pick(s, SubSeq(t, 5, 6)) \o <<"-">>
    \o Pick(s, SubSeq(t, 7, 8))

----------------------------------------------------------------------------
(* extractAFormatedEbupot.  f is the frame of the call (its locals), line   *)
(* the element of s.split(/\n/) the loop is at; every handler yields the    *)
(* frame after the loop body ran for that line.                             *)

\* Extractor A with buffer kept outside the function: a call starts with what
\* the call before it left in buffer
AEnterKeepsBuffer(f, data) ==
  LET p == IndexOf(data, AnchorA)
      s == SubstringFrom(data, p)
  IN  [f EXCEPT !.pc = "loop", !.fn = "A", !.lines = Split(s), !.idx = 0, !.steps = 0,
                !.line = << >>, !.handler = -1, !.brk = FALSE, !.ret = NewRecord,
                !.state = 0, !.bufferLines = << >>, !.b7 = FALSE]

\* The locals as the function sets them up before the loop.  f is the frame
\* being (re)used for the call: every local is assigned afresh.
AEnter(f, data) ==
  LET p == IndexOf(data, AnchorA)
      s == SubstringFrom(data, p)
  IN  [f EXCEPT !.pc = "loop", !.fn = "A", !.lines = Split(s), !.idx = 0, !.steps = 0,
                !.line = << >>, !.handler = -1, !.brk = FALSE, !.ret = NewRecord,
                !.buffer = << >>, !.state = 0,
                !.bufferLines = << >>, !.b7 = FALSE]

ExA0(f, line) == [f EXCEPT !.state = 1]

ExA1(f, line) == [f EXCEPT !.ret.b7 = Append(@, line), !.state = 2]

ExA2(f, line) == IF line = L_yyyy THEN [f EXCEPT !.state = 3] ELSE f

\* State 3 leaving the line captured in state 1 in place when its line is empty
ExA3NoPop(f, line) ==
  IF line = << >>
  THEN [f EXCEPT !.state = 4]
  ELSE LET docName == Slice(line, 0, -8)
           docDate == SliceFrom(line, -8)
       IN  [f EXCEPT !.state = 4,
                     !.ret.b7 = Append(Append(@, docName), ddmmyyyyToIso(docDate))]

ExA3(f, line) ==
  IF line = << >>
  THEN [f EXCEPT !.state = 4, !.ret.b7 = Pop(@)]
  ELSE LET docName == Slice(line, 0, -8)
           docDate == SliceFrom(line, -8)
       IN  [f EXCEPT !.state = 4,
                     !.ret.b7 = Append(Append(@, docName), ddmmyyyyToIso(docDate))]

ExA4(f, line) == IF line = L_Tanggal THEN [f EXCEPT !.state = 5] ELSE f

\* State 5 leaving the accumulated text in buffer when it meets 'B.9'
ExA5KeepsBuffer(f, line) ==
  IF line = L_B9
  THEN IF Len(f.buffer) = 0
       THEN [f EXCEPT !.state = 6]
       ELSE LET docName == Slice(f.buffer, 0, -8)
                docDate == SliceFrom(f.buffer, -8)
            IN  [f EXCEPT !.state = 6,
                          !.ret.b8 = Append(Append(@, docName), ddmmyyyyToIso(docDate))]
  ELSE [f EXCEPT !.buffer = @ \o line]

ExA5(f, line) ==
  IF line = L_B9
  THEN IF Len(f.buffer) = 0
       THEN [f EXCEPT !.state = 6]
       ELSE LET docName == Slice(f.buffer, 0, -8)
                docDate == SliceFrom(f.buffer, -8)
            IN  [f EXCEPT !.state = 6,
                          !.ret.b8 = Append(Append(@, docName), ddmmyyyyToIso(docDate)),
                          !.buffer = << >>]
  ELSE [f EXCEPT !.buffer = @ \o line]

\* State 6 without its test: any line moves the machine on
ExA6AnyLine(f, line) == [f EXCEPT !.state = 7]

ExA6(f, line) == IF line = L_C1 THEN [f EXCEPT !.state = 7] ELSE f

ExA7(f, line) == IF line = L_NPWP THEN [f EXCEPT !.state = 8] ELSE f

ExA8(f, line) ==
  IF line = L_NamaC2
  THEN [f EXCEPT !.state = 9, !.ret.c1 = f.buffer, !.buffer = << >>]
  ELSE [f EXCEPT !.buffer = @ \o line]

ExA9(f, line) == IF line = L_mmyyyy THEN [f EXCEPT !.state = 10] ELSE f

ExA10(f, line) ==
  IF line = L_C4
  THEN [f EXCEPT !.state = 11, !.ret.c3 = ddmmyyyyToIso(f.buffer), !.buffer = << >>]
  ELSE [f EXCEPT !.buffer = @ \o line]

ExA11(f, line) == IF IndexOf(line, AnchorC) > -1 THEN [f EXCEPT !.state = 12] ELSE f

ExA12(f, line) == [f EXCEPT !.ret.h1 = line, !.state = 13]

\* State 13 taking the first line whatever its length
ExA13AnyLength(f, line) == [f EXCEPT !.state = 14, !.ret.b1 = line]

ExA13(f, line) == IF Len(line) > 4 THEN [f EXCEPT !.state = 14, !.ret.b1 = line] ELSE f

\* State 14 without its break: every later line is assigned to amountRef2
ExA14NoBreak(f, line) == [f EXCEPT !.ret.b2 = line]

ExA14(f, line) == [f EXCEPT !.ret.b2 = line, !.brk = TRUE]

\* One iteration of the for loop: the first if whose condition holds runs
AStep(f, line) ==
  CASE f.state = 0  -> ExA0(f, line)
    [] f.state = 1  -> ExA1(f, line)
    [] f.state = 2  -> ExA2(f, line)
    [] f.state = 3  -> ExA3(f, line)
    [] f.state = 4  -> ExA4(f, line)
    [] f.state = 5  -> ExA5(f, line)
    [] f.state = 6  -> ExA6(f, line)
    [] f.state = 7  -> ExA7(f, line)
    [] f.state = 8  -> ExA8(f, line)
    [] f.state = 9  -> ExA9(f, line)
    [] f.state = 10 -> ExA10(f, line)
    [] f.state = 11 -> ExA11(f, line)
    [] f.state = 12 -> ExA12(f, line)
    [] f.state = 13 -> ExA13(f, line)
    [] f.state = 14 -> ExA14(f, line)
    [] OTHER        -> f

----------------------------------------------------------------------------
(* extractBFormatedEbupot *)

BEnter(f, data) ==
  LET p == IndexOf(data, AnchorB)
      s == SubstringFrom(data, p)
  IN  [f EXCEPT !.pc = "loop", !.fn = "B", !.lines = Split(s), !.idx = 0, !.steps = 0,
                !.line = << >>, !.handler = -1, !.brk = FALSE, !.ret = NewRecord,
                !.buffer = << >>, !.state = 0,
                !.bufferLines = << >>, !.b7 = FALSE]

ExB01(f, line) == [f EXCEPT !.state = @ + 1]

ExB2(f, line) == [f EXCEPT !.ret.h1 = line, !.state = 3]

ExB3(f, line) == IF line = L_B1B6 THEN [f EXCEPT !.state = 4] ELSE f

ExB4(f, line) ==
  LET p == IndexOf(line, <<"-">>)
  IN  [f EXCEPT !.state = 5,
                !.ret.b1 = IF Slice(line, -11, -10) = <<",">>
                           THEN SliceFrom(line, -7) ELSE SliceFrom(line, -6),
                !.ret.b2 = Substring(line, p - 2, p + 7)]

ExB5(f, line) == IF line = L_ddmmyyyy THEN [f EXCEPT !.state = 6] ELSE f

\* State 6 taking 'B.9' for the line that says no document reference follows
ExB6TestsB9(f, line) ==
  IF line = L_B9
  THEN [f EXCEPT !.state = 8, !.ret.b7 = @ \o << << >>, << >>, << >> >>]
  ELSE [f EXCEPT !.state = 7, !.ret.b7 = Append(@, line)]

ExB6(f, line) ==
  IF line = L_B8
  THEN [f EXCEPT !.state = 8, !.ret.b7 = @ \o << << >>, << >>, << >> >>]
  ELSE [f EXCEPT !.state = 7, !.ret.b7 = Append(@, line)]

ExB7(f, line) ==
  LET randDate == SliceFrom(line, -8)
      date     == JoinDate(randDate, RandDateTable)
  IN  [f EXCEPT !.state = 8,
                !.ret.b7 = Append(Append(@, Slice(line, 0, -8)), date)]

ExB8(f, line) == [f EXCEPT !.state = 9]

ExB9(f, line) == IF StartsWith(line, L_Identitas) THEN [f EXCEPT !.state = 10] ELSE f

ExB10(f, line) == [f EXCEPT !.state = 11, !.ret.c1 = Pick(line, NpwpTable)]

ExB11(f, line) == IF line = L_C2Nama THEN [f EXCEPT !.state = 12] ELSE f

ExB12(f, line) == [f EXCEPT !.ret.c3 = JoinDate(line, CertDateTable), !.brk = TRUE]

BStep(f, line) ==
  CASE f.state < 2  -> ExB01(f, line)
    [] f.state = 2  -> ExB2(f, line)
    [] f.state = 3  -> ExB3(f, line)
    [] f.state = 4  -> ExB4(f, line)
    [] f.state = 5  -> ExB5(f, line)
    [] f.state = 6  -> ExB6(f, line)
    [] f.state = 7  -> ExB7(f, line)
    [] f.state = 8  -> ExB8(f, line)
    [] f.state = 9  -> ExB9(f, line)
    [] f.state = 10 -> ExB10(f, line)
    [] f.state = 11 -> ExB11(f, line)
    [] f.state = 12 -> ExB12(f, line)
    [] OTHER        -> f

----------------------------------------------------------------------------
(* extractCFormatedEbupot *)

CEnter(f, data) ==
  LET p == IndexOf(data, AnchorC)
      s == SubstringFrom(data, p)
  IN  [f EXCEPT !.pc = "loop", !.fn = "C", !.lines = Split(s), !.idx = 0, !.steps = 0,
                !.line = << >>, !.handler = -1, !.brk = FALSE, !.ret = NewRecord,
                !.bufferLines = << >>, !.b7 = FALSE, !.state = 0,
                !.buffer = << >>]

ExC0(f, line) == [f EXCEPT !.state = 1]

ExC1(f, line) == [f EXCEPT !.ret.h1 = StripWs(line), !.state = 2]

ExC2to5(f, line) == [f EXCEPT !.state = @ + 1]

ExC6(f, line) ==
  LET p == IndexOf(line, <<"-">>)
  IN  [f EXCEPT !.state = 7,
                !.ret.b1 = Substring(line, 0, p + 5),
                !.ret.b2 = Substring(line, p + 5, p + 14)]

ExC7(f, line) == [f EXCEPT !.state = 8]

ExC8(f, line) == [f EXCEPT !.state = 9, !.bufferLines = Append(@, line)]

\* State 9 taking any all-digit line for the taxpayer number, whatever its length
ExC9AnyLength(f, line) ==
  LET npwp == StripWs(line)
  IN  IF IsDigits(npwp)
      THEN [f EXCEPT !.state = 11, !.ret.c1 = npwp]
      ELSE [f EXCEPT !.state = 10, !.bufferLines = Append(@, line), !.b7 = TRUE]

ExC9(f, line) ==
  LET npwp == StripWs(line)
  IN  IF IsDigits(npwp) /\ Len(npwp) = 15
      THEN [f EXCEPT !.state = 11, !.ret.c1 = npwp]
      ELSE [f EXCEPT !.state = 10, !.bufferLines = Append(@, line), !.b7 = TRUE]

ExC10(f, line) == [f EXCEPT !.state = 11, !.ret.c1 = StripWs(line)]

\* State 11 appending the pair of a single buffered line to supportingDocuments
ExC11PairToSupporting(f, line) ==
  IF f.b7
  THEN IF Len(f.bufferLines) < 2
       THEN [f EXCEPT !.state = 12, !.pc = "raised"]
       ELSE LET pair == splitDocDate(f.bufferLines[2])
            IN  [f EXCEPT !.state = 12,
                          !.ret.b7 = @ \o <<f.bufferLines[1], pair[1], pair[2]>>]
  ELSE IF Len(f.bufferLines) < 1
       THEN [f EXCEPT !.state = 12, !.pc = "raised"]
       ELSE LET pair == splitDocDate(f.bufferLines[1])
            IN  [f EXCEPT !.state = 12, !.ret.b7 = @ \o <<pair[1], pair[2]>>]

\* splitDocDate(bufferLines[k]) reads .length of undefined, a TypeError, when
\* the array has no element k; the exception leaves the function (pc "raised").
ExC11(f, line) ==
  IF f.b7
  THEN IF Len(f.bufferLines) < 2
       THEN [f EXCEPT !.state = 12, !.pc = "raised"]
       ELSE LET pair == splitDocDate(f.bufferLines[2])
            IN  [f EXCEPT !.state = 12,
                          !.ret.b7 = @ \o <<f.bufferLines[1], pair[1], pair[2]>>]
  ELSE IF Len(f.bufferLines) < 1
       THEN [f EXCEPT !.state = 12, !.pc = "raised"]
       ELSE LET pair == splitDocDate(f.bufferLines[1])
            IN  [f EXCEPT !.state = 12, !.ret.b8 = @ \o <<pair[1], pair[2]>>]

ExC12(f, line) == [f EXCEPT !.ret.c3 = ddmmyyyyToIso(StripWs(line)), !.brk = TRUE]

CStep(f, line) ==
  CASE f.state = 0  -> ExC0(f, line)
    [] f.state = 1  -> ExC1(f, line)
    [] f.state \in 2..5 -> ExC2to5(f, line)
    [] f.state = 6  -> ExC6(f, line)
    [] f.state = 7  -> ExC7(f, line)
    [] f.state = 8  -> ExC8(f, line)
    [] f.state = 9  -> ExC9(f, line)
    [] f.state = 10 -> ExC10(f, line)
    [] f.state = 11 -> ExC11(f, line)
    [] f.state = 12 -> ExC12(f, line)
    [] OTHER        -> f

----------------------------------------------------------------------------
(* The input texts: four documents, one per path through the extractors,    *)
(* every text one line edit away from them, and a few degenerate texts.     *)

\* A layout A document: a line before the anchor, then the lines the 15 states walk
DocA ==
  <<
    <<"j", "u", "n", "k">>,
    <<"a", "b", " ", "D", "o", "k", "u", "m", "e", "n", " ", "R", "e", "f", "e", "r", "e", "n", "s", "i">>,
    <<"h", "d", "r">>,
    <<"y", "y", "y", "y">>,
    <<"I", "N", "V", "-", "1", " ", "0", "5", "0", "8", "2", "0", "2", "3">>,
    <<"T", "a", "n", "g", "g", "a", "l">>,
    <<"S", "K", " ", "0", "1", "0", "2", "2", "0", "2", "3">>,
    <<"B", ".", "9">>,
    <<"C", ".", "1">>,
    <<":", "N", "P", "W", "P">>,
    <<"1", "2", "3", "4", "5", "6", "7", "8", "9", "0", "1", "2", "3", "4", "5">>,
    <<"N", "a", "m", "a", " ", "W", "a", "j", "i", "b", " ", "P", "a", "j", "a", "k", "C", ".", "2", ":">>,
    <<"m", "m", "y", "y", "y", "y">>,
    <<"0", "1", "0", "1", "2", "0", "2", "4">>,
    <<"C", ".", "4">>,
    <<"x", " ", "B", "u", "k", "t", "i", " ", "P", "e", "m", "o", "t", "o", "n", "g", "a", "n", " ", "i", "n", "i", ".">>,
    <<"C", "E", "R", "T", "-", "9", "9">>,
    <<"1", "2", "3", "4", "5">>,
    <<"A", "M", "T", "-", "2">>,
    <<"e", "n", "d">>
  >>

\* A layout B document
DocB ==
  <<
    <<"j", "u", "n", "k">>,
    <<"P", "P", "h", " ", "T", "i", "d", "a", "k", " ", "F", "i", "n", "a", "l">>,
    <<"s", "k", "i", "p">>,
    <<"B", "-", "C", "E", "R", "T", "-", "7">>,
    <<"B", ".", "1", "B", ".", "2", "B", ".", "3", "B", ".", "4", "B", ".", "5", "B", ".", "6">>,
    <<"2", "4", "-", "1", "0", "0", "-", "0", "1", ",", "1", "2", "3", "4", "5", "6", "7", "8", "9", "0">>,
    <<"d", "d", "m", "m", "y", "y", "y", "y">>,
    <<"D", "O", "C", "-", "R", "E", "F">>,
    <<"I", "N", "V", " ", "1", "2", "3", "4", "5", "6", "7", "8">>,
    <<"g", "a", "p">>,
    <<"C", ".", " ", "I", "D", "E", "N", "T", "I", "T", "A", "S", " ", "P", "E", "M", "O", "T", "O", "N", "G", " ", ":">>,
    <<"1", "2", "3", "4", "5", "6", "7", "8", "9", "0", "1", "2", "3", "4", "5">>,
    <<"C", ".", "2", "N", "a", "m", "a", " ", "W", "a", "j", "i", "b", " ", "P", "a", "j", "a", "k", ":">>,
    <<"1", "2", "3", "4", "5", "6", "7", "8">>,
    <<"e", "n", "d">>
  >>

\* A layout C document whose state 9 line is the taxpayer number
DocC ==
  <<
    <<"j", "u", "n", "k">>,
    <<"B", "u", "k", "t", "i", " ", "P", "e", "m", "o", "t", "o", "n", "g", "a", "n", " ", "i", "n", "i", ".">>,
    <<"C", " ", "0", "0", "1">>,
    <<"s", "2">>,
    <<"s", "3">>,
    <<"s", "4">>,
    <<"s", "5">>,
    <<"2", "4", "-", "1", "0", "0", "-", "0", "1", "1", "2", "3", "4", "5", ".", "0", "0">>,
    <<"s", "7">>,
    <<"I", "N", "V", "O", "I", "C", "E", " ", "L", "A", "B", "E", "L", " ", " ", " ", "0", "5", "0", "8", "2", "0", "2", "3">>,
    <<"1", "2", " ", "3", "4", "5", " ", "6", "7", "8", " ", "9", "0", "1", " ", "2", "3", "4", " ", "5">>,
    <<"s", "1", "1">>,
    <<"0", "1", " ", "0", "1", " ", "2", "0", "2", "4">>,
    <<"e", "n", "d">>
  >>

\* A layout C document with a supporting document (two buffered lines)
DocCRef ==
  <<
    <<"j", "u", "n", "k">>,
    <<"B", "u", "k", "t", "i", " ", "P", "e", "m", "o", "t", "o", "n", "g", "a", "n", " ", "i", "n", "i", ".">>,
    <<"C", " ", "0", "0", "1">>,
    <<"s", "2">>,
    <<"s", "3">>,
    <<"s", "4">>,
    <<"s", "5">>,
    <<"2", "4", "-", "1", "0", "0", "-", "0", "1", "1", "2", "3", "4", "5", ".", "0", "0">>,
    <<"s", "7">>,
    <<"D", "O", "C", "-", "R", "E", "F">>,
    <<"I", "N", "V", " ", "0", "5", "0", "8", "2", "0", "2", "3">>,
    <<"1", "2", "3", "4", "5", "6", "7", "8", "9", "0", "1", "2", "3", "4", "5">>,
    <<"s", "1", "1">>,
    <<"0", "1", "0", "1", "2", "0", "2", "4">>,
    <<"e", "n", "d">>
  >>

\* The layout A scenario, head: up to the line after which state 5 accumulates
ScenarioHead ==
  <<
    <<"j", "u", "n", "k">>,
    <<"D", "o", "k", "u", "m", "e", "n", " ", "R", "e", "f", "e", "r", "e", "n", "s", "i">>,
    <<"h", "d", "r">>,
    <<"c", "a", "p">>,
    <<"y", "y", "y", "y">>,
    <<"I", "N", "V", "O", "I", "C", "E", "-", "0", "0", "1", " ", "0", "5", "0", "8", "2", "0", "2", "3">>,
    <<"T", "a", "n", "g", "g", "a", "l">>
  >>

\* The layout A scenario, tail: from the line that opens the last three fields
ScenarioTail ==
  <<
    <<"x", " ", "B", "u", "k", "t", "i", " ", "P", "e", "m", "o", "t", "o", "n", "g", "a", "n", " ", "i", "n", "i", ".">>,
    <<"C", "E", "R", "T", "-", "9", "9">>,
    <<"1", "2", "3", "4", "5">>,
    <<"A", "M", "T", "-", "2">>,
    <<>>
  >>

\* Lines that may stand before an anchor line of the scenario
ScenarioFill == { << >>, << <<"x">> >> }

\* The scenario with every anchor on a line of its own, the taxpayer number and
\* the certificate date on the lines before their anchors
ScenarioDocs ==
  { ScenarioHead \o fb \o << L_B9 >> \o fc \o << L_C1, L_NPWP >>
      \o << <<"1", "2", "3", "4", "5", "6", "7", "8", "9", "0", "1", "2", "3", "4", "5">>, L_NamaC2, L_mmyyyy >>
      \o << <<"0", "1", "0", "1", "2", "0", "2", "4">>, L_C4 >> \o ScenarioTail :
    fb \in ScenarioFill, fc \in ScenarioFill }

\* The scenario with the taxpayer number and the certificate date on the same
\* line as the anchor that follows them; 'B.9' and 'C.1' end their lines
GluedScenarioDocs ==
  { ScenarioHead \o << pre \o L_B9, pre \o L_C1, L_NPWP >>
      \o << <<"1", "2", "3", "4", "5", "6", "7", "8", "9", "0", "1", "2", "3", "4", "5">> \o L_NamaC2, L_mmyyyy >>
      \o << <<"0", "1", "0", "1", "2", "0", "2", "4">> \o L_C4 >> \o ScenarioTail :
    pre \in { << >>, <<"x", " ">> } }

\* Lines an edit puts into a document
LinePool ==
  <<
    <<>>,
    <<"x">>,
    <<"B", ".", "8">>,
    <<"B", ".", "9">>,
    <<"y", "y", "y", "y">>,
    <<"C", ".", "4">>,
    <<"I", "N", "V", " ", "0", "5", "0", "8", "2", "0", "2", "3">>,
    <<"0", "5", "0", "8", "2", "0", "2", "3">>,
    <<"A", "B", "C", "D", "E", "F", "G", "H", "I", "J", "K", "L", "M", "N", "O">>,
    <<" ", "1", " ", "2", " ">>,
    <<"a", "b", "-", "c", "d">>,
    <<"D", "o", "k", "u", "m", "e", "n", " ", "R", "e", "f", "e", "r", "e", "n", "s", "i">>,
    <<"P", "P", "h", " ", "T", "i", "d", "a", "k", " ", "F", "i", "n", "a", "l">>,
    <<"B", "u", "k", "t", "i", " ", "P", "e", "m", "o", "t", "o", "n", "g", "a", "n", " ", "i", "n", "i", ".">>
  >>

\* lines.join('\n')
RECURSIVE Join(_)
Join(ls) ==
  IF ls = << >> THEN << >>
  ELSE IF Len(ls) = 1 THEN ls[1]
  ELSE ls[1] \o <<"\n">> \o Join(Tail(ls))

Replace(d, i, l) == [d EXCEPT ![i] = l]
Delete(d, i) == SubSeq(d, 1, i - 1) \o SubSeq(d, i + 1, Len(d))
Insert(d, i, l) == SubSeq(d, 1, i - 1) \o <<l>> \o SubSeq(d, i, Len(d))

PoolLines == { LinePool[k] : k \in 1..Len(LinePool) }

\* d and every document one replaced, deleted or inserted line away from it
Edits(d) ==
  {d}
    \cup { Replace(d, i, l) : i \in 1..Len(d), l \in PoolLines }
    \cup { Delete(d, i) : i \in 1..Len(d) }
    \cup { Insert(d, i, l) : i \in 1..(Len(d) + 1), l \in PoolLines }

Degenerate == { << >>, << << >> >>, << <<"x">> >>, << <<" ">>, << >> >>, << <<"x">>, <<"y">> >> }

Documents ==
  Edits(DocA) \cup Edits(DocB) \cup Edits(DocC) \cup Edits(DocCRef) \cup Degenerate
    \cup ScenarioDocs \cup GluedScenarioDocs

Texts == { Join(d) : d \in Documents }

\* format tags a caller passes to extractEbupot
Formats == {"A", "B", "C", "Z", "U"}

\* Texts for the detector: up to MaxPieces pieces, signatures and other text
MaxPieces == 3

SigPieces == {SigA, SigB, SigC, <<" ">>, <<"\n">>, <<"x">>}

RECURSIVE Concat(_)
Concat(ps) == IF ps = << >> THEN << >> ELSE Head(ps) \o Concat(Tail(ps))

SigTexts == { Concat(ps) : ps \in UNION { [1..n -> SigPieces] : n \in 0..MaxPieces } }

\* how many calls one worker makes, one after the other, with the same arguments
MaxCalls == 2

----------------------------------------------------------------------------
(* The state machine *)

Workers == {"w1", "w2"}

IdleFrame ==
  [pc |-> "idle", fn |-> "none", lines |-> << >>, idx |-> 0, steps |-> 0, line |-> << >>, handler |-> -1,
   brk |-> FALSE, ret |-> NewRecord, buffer |-> << >>, state |-> 0,
   bufferLines |-> << >>, b7 |-> FALSE]

\* A dispatcher without the default case: an unknown format falls into Extractor A
extractEbupotNoDefault(f, data, format) ==
  CASE format = "B" -> BEnter(f, data)
    [] format = "C" -> CEnter(f, data)
    [] OTHER        -> AEnter(f, data)

\* extractEbupot: the switch on format
extractEbupot(f, data, format) ==
  CASE format = "A" -> AEnter(f, data)
    [] format = "B" -> BEnter(f, data)
    [] format = "C" -> CEnter(f, data)
    [] OTHER        -> [f EXCEPT !.pc = "return", !.fn = "none", !.steps = 0,
                                  !.ret = EmptyObject]

\* for (const line of ...): is there another line to take
LoopRuns(f) == f.pc = "loop" /\ ~f.brk /\ f.idx < Len(f.lines)

\* The line the loop takes next
CurLine(f) == f.lines[f.idx + 1]

\* A loop that hands the same line to the body again and again
AdvanceStuck(f, g) ==
  [g EXCEPT !.steps = f.steps + 1, !.line = CurLine(f), !.handler = f.state]

\* One pass of the for loop: f is the frame before the pass, g the frame the
\* loop body left.  steps counts the passes; line and handler record which
\* line was taken and which state's branch handled it.
Advance(f, g) ==
  [g EXCEPT !.idx = f.idx + 1, !.steps = f.steps + 1, !.line = CurLine(f),
            !.handler = f.state]

\* The loop body of the extractor a frame belongs to, applied to its next line
BodyOf(f) ==
  CASE f.fn = "A" -> AStep(f, CurLine(f))
    [] f.fn = "B" -> BStep(f, CurLine(f))
    [] f.fn = "C" -> CStep(f, CurLine(f))

\* The for loop run to its end, from the frame f on
RECURSIVE RunLoop(_)
RunLoop(f) == IF LoopRuns(f) THEN RunLoop(Advance(f, BodyOf(f))) ELSE f

\* main.ts before any request: no cookie, no request in flight.  dir and file
\* say whether the temporary directory and file of the request in flight
\* exist; gets, refreshes, s1, s2, piped and error record what its call of
\* downloadFile did (0 and "none": nothing yet).
IdleServer ==
  [pc |-> "idle", authCookie |-> "null", served |-> 0, dir |-> FALSE, file |-> FALSE,
   stage |-> "first", gets |-> 0, refreshes |-> 0, s1 |-> 0, s2 |-> 0, piped |-> 0,
   error |-> "none", reply |-> [status |-> 0, format |-> "", data |-> EmptyObject],
   outcome |-> "pending", raisedIn |-> "none"]

\* handleMainRoute: format = getEbupotFormatedSignature(pdfData.text); "?" marks
\* a format that is still to be detected
Detect(w) ==
  /\ input[w].format = "?"
  /\ input' = [input EXCEPT ![w].format = getEbupotFormatedSignature(input[w].data)]
  /\ UNCHANGED <<frame, results, server>>

\* A worker calls extractEbupot(data, format)
Call(w) ==
  /\ frame[w].pc \in {"idle", "done"}
  /\ input[w].format # "?"
  /\ Len(results[w]) < MaxCalls
  /\ frame' = [frame EXCEPT ![w] = extractEbupot(@, input[w].data, input[w].format)]
  /\ UNCHANGED <<input, results, server>>

\* Extractor A with buffer declared outside the function: every run in flight
\* sees what any run wrote to it
LoopASharedBuffer(w) ==
  /\ frame[w].fn = "A"
  /\ LoopRuns(frame[w])
  /\ LET g == Advance(frame[w], AStep(frame[w], CurLine(frame[w])))
     IN  frame' = [v \in Workers |->
                     IF v = w THEN g ELSE [frame[v] EXCEPT !.buffer = g.buffer]]
  /\ UNCHANGED <<input, results, server>>

LoopA(w) ==
  /\ frame[w].fn = "A"
  /\ LoopRuns(frame[w])
  /\ frame' = [frame EXCEPT ![w] = Advance(@, AStep(@, CurLine(@)))]
  /\ UNCHANGED <<input, results, server>>

LoopB(w) ==
  /\ frame[w].fn = "B"
  /\ LoopRuns(frame[w])
  /\ frame' = [frame EXCEPT ![w] = Advance(@, BStep(@, CurLine(@)))]
  /\ UNCHANGED <<input, results, server>>

LoopC(w) ==
  /\ frame[w].fn = "C"
  /\ LoopRuns(frame[w])
  /\ frame' = [frame EXCEPT ![w] = Advance(@, CStep(@, CurLine(@)))]
  /\ UNCHANGED <<input, results, server>>

\* return ret (after the loop ended or broke), or the dispatcher's return {}
Return(w) ==
  /\ \/ frame[w].pc = "return"
     \/ frame[w].pc = "loop" /\ ~LoopRuns(frame[w])
  /\ results' = [results EXCEPT ![w] = Append(@, frame[w].ret)]
  /\ frame' = [frame EXCEPT ![w].pc = "done"]
  /\ UNCHANGED <<input, server>>

Init ==
  /\ \E d \in Texts, fmt \in Formats :
       input = [w \in Workers |-> [data |-> d, format |-> fmt]]
  /\ frame = [w \in Workers |-> IdleFrame]
  /\ results = [w \in Workers |-> << >>]
  /\ server = IdleServer

Next ==
  \/ Call("w1")
  \/ LoopA("w1")
  \/ LoopB("w1")
  \/ LoopC("w1")
  \/ Return("w1")

Spec == Init /\ [][Next]_vars

\* Detection followed by extraction of the detected format, over the detector's texts
SigInit ==
  /\ \E d \in SigTexts :
       input = [w \in Workers |-> [data |-> d, format |-> "?"]]
  /\ frame = [w \in Workers |-> IdleFrame]
  /\ results = [w \in Workers |-> << >>]
  /\ server = IdleServer

SigNext ==
  \/ Detect("w1")
  \/ Call("w1")
  \/ LoopA("w1")
  \/ LoopB("w1")
  \/ LoopC("w1")
  \/ Return("w1")

SigSpec == SigInit /\ [][SigNext]_vars

\* The layouts that have an extractor
Layouts == {"A", "B", "C"}

\* Arguments of the runs that go on side by side
ParInputs ==
  { [data |-> Join(DocA), format |-> "A"], [data |-> Join(DocB), format |-> "B"],
    [data |-> Join(DocC), format |-> "C"], [data |-> Join(DocCRef), format |-> "C"],
    [data |-> Join(DocA), format |-> "C"] }

\* Two workers, each with its own text and format, their steps interleaved
ParInit ==
  /\ \E i1 \in ParInputs, i2 \in ParInputs :
       input = [w \in Workers |-> IF w = "w1" THEN i1 ELSE i2]
  /\ frame = [w \in Workers |-> IdleFrame]
  /\ results = [w \in Workers |-> << >>]
  /\ server = IdleServer

ParNext ==
  \E w \in Workers :
    \/ Call(w)
    \/ LoopA(w)
    \/ LoopB(w)
    \/ LoopC(w)
    \/ Return(w)

ParSpec == ParInit /\ [][ParNext]_vars

----------------------------------------------------------------------------
(* main.ts: handleMainRoute and downloadFile, one step per await.  Requests  *)
(* are served one after the other; authCookie outlives them.                 *)

\* how many requests the server receives
MaxRequests == 2

\* Status codes the remote server answers a GET with
Statuses == {200, 204, 302, 404, 500}

\* validateStatus of the axios calls: any other status makes the call reject
ValidateStatus(status) == status >= 200 /\ status < 400

\* Texts pdfParse yields: a layout A and a layout C form, a blank and another text
PdfTexts ==
  { SigA \o <<"\n">> \o Join(DocA), SigC \o <<"\n">> \o Join(DocC), <<" ">>, <<"x">> }

\* A throw inside the try block: the catch block replies 500, then finally runs
Throw(s, site) ==
  [s EXCEPT !.error = site,
            !.reply = [status |-> 500, format |-> "", data |-> EmptyObject],
            !.pc = "unlink"]

\* A request arrives: handleMainRoute runs up to its await of mkdtemp
Receive ==
  /\ server.pc \in {"idle", "finished"}
  /\ server.served < MaxRequests
  /\ server' = [IdleServer EXCEPT !.pc = "mkdtemp",
                                  !.authCookie = server.authCookie,
                                  !.served = server.served + 1]
  /\ UNCHANGED <<input, frame, results>>

\* mkdtemp settles; on success downloadFile starts: it awaits the login when
\* there is no cookie yet, the GET otherwise
MkdTemp ==
  /\ server.pc = "mkdtemp"
  /\ \E ok \in BOOLEAN :
       server' = IF ok
                 THEN [server EXCEPT !.dir = TRUE,
                                     !.pc = IF server.authCookie = "null"
                                            THEN "post" ELSE "get1"]
                 ELSE [server EXCEPT !.pc = "finished", !.outcome = "rejected",
                                     !.raisedIn = "mkdtemp"]
  /\ UNCHANGED <<input, frame, results>>

\* retrieveAuthenticationCookie: the POST answers with a cookie, answers
\* without one, or is rejected for its status
Post ==
  /\ server.pc = "post"
  /\ \E answer \in {"cookie", "nocookie", "rejected"} :
       server' = IF answer = "cookie"
                 THEN [server EXCEPT !.authCookie = "set",
                                     !.pc = IF server.stage = "first"
                                            THEN "get1" ELSE "get2"]
                 ELSE Throw(server, "auth")
  /\ UNCHANGED <<input, frame, results>>

\* makeRequest, the first GET
FirstGet ==
  /\ server.pc = "get1"
  /\ \E status \in Statuses :
       LET s == [server EXCEPT !.gets = @ + 1, !.s1 = status]
       IN  server' =
             IF ~ValidateStatus(status) THEN Throw(s, "get")
             ELSE IF status # 200
             THEN [s EXCEPT !.refreshes = @ + 1, !.stage = "refresh", !.pc = "post"]
             ELSE [s EXCEPT !.piped = status, !.pc = "write"]
  /\ UNCHANGED <<input, frame, results>>

\* A retry whose response is returned whatever its status
RetryGetUnchecked ==
  /\ server.pc = "get2"
  /\ \E status \in Statuses :
       LET s == [server EXCEPT !.gets = @ + 1, !.s2 = status]
       IN  server' =
             IF ~ValidateStatus(status) THEN Throw(s, "get")
             ELSE [s EXCEPT !.piped = status, !.pc = "write"]
  /\ UNCHANGED <<input, frame, results>>

\* makeRequest, the GET after the cookie was refreshed
RetryGet ==
  /\ server.pc = "get2"
  /\ \E status \in Statuses :
       LET s == [server EXCEPT !.gets = @ + 1, !.s2 = status]
       IN  server' =
             IF ~ValidateStatus(status) THEN Throw(s, "get")
             ELSE IF status # 200 THEN Throw(s, "retry")
             ELSE [s EXCEPT !.piped = status, !.pc = "write"]
  /\ UNCHANGED <<input, frame, results>>

\* The response is piped to the write stream: 'finish' resolves, 'error'
\* rejects, and then the file may or may not have been created
WriteFile ==
  /\ server.pc = "write"
  /\ \/ server' = [server EXCEPT !.file = TRUE, !.pc = "read"]
     \/ \E created \in BOOLEAN :
          server' = Throw([server EXCEPT !.file = created], "write")
  /\ UNCHANGED <<input, frame, results>>

\* fsPromises.readFile(tempFilePath)
ReadFile ==
  /\ server.pc = "read"
  /\ \/ server' = [server EXCEPT !.pc = "parse"]
     \/ server' = Throw(server, "read")
  /\ UNCHANGED <<input, frame, results>>

\* pdfParse settles; on success the format is detected, the text extracted
\* and the reply sent
PdfParse ==
  /\ server.pc = "parse"
  /\ \/ \E text \in PdfTexts :
          LET format == getEbupotFormatedSignature(text)
              data   == RunLoop(extractEbupot(IdleFrame, text, format)).ret
          IN  server' = [server EXCEPT
                           !.reply = [status |-> 200, format |-> format, data |-> data],
                           !.pc = "unlink"]
     \/ server' = Throw(server, "parse")
  /\ UNCHANGED <<input, frame, results>>

\* finally: unlink(tempFilePath) rejects when there is no such file, and the
\* rejection leaves the handler
Unlink ==
  /\ server.pc = "unlink"
  /\ server' = IF server.file
               THEN [server EXCEPT !.file = FALSE, !.pc = "rmdir"]
               ELSE [server EXCEPT !.pc = "finished", !.outcome = "rejected",
                                   !.raisedIn = "unlink"]
  /\ UNCHANGED <<input, frame, results>>

\* finally: rmdir(tempDir), the last step of the handler
Rmdir ==
  /\ server.pc = "rmdir"
  /\ server' = [server EXCEPT !.dir = FALSE, !.pc = "finished", !.outcome = "resolved"]
  /\ UNCHANGED <<input, frame, results>>

MainInit ==
  /\ input = [w \in Workers |-> [data |-> << >>, format |-> "U"]]
  /\ frame = [w \in Workers |-> IdleFrame]
  /\ results = [w \in Workers |-> << >>]
  /\ server = IdleServer

MainNext ==
  \/ Receive
  \/ MkdTemp
  \/ Post
  \/ FirstGet
  \/ RetryGet
  \/ WriteFile
  \/ ReadFile
  \/ PdfParse
  \/ Unlink
  \/ Rmdir

MainSpec == MainInit /\ [][MainNext]_vars

----------------------------------------------------------------------------
(* Properties *)

\* pat occurs somewhere in s
Contains(s, pat) ==
  \E i \in 1..(Len(s) - Len(pat) + 1) : SubSeq(s, i, i + Len(pat) - 1) = pat

AllWhitespace(s) == \A k \in 1..Len(s) : s[k] \in Whitespace


\* C1: once detected, the format is exactly one of A, B, C, Z, U and it is the
\* first that applies of: A if the text holds the layout A signature, B if it
\* holds the layout B signature, C if it holds the layout C signature, Z if
\* the text is only whitespace (or empty), U otherwise -- also when several
\* signatures occur in the same text.
SignaturePriority ==
  \A w \in Workers :
    LET d   == input[w].data
        fmt == input[w].format
        a   == Contains(d, SigA)
        b   == Contains(d, SigB)
        c   == Contains(d, SigC)
    IN  fmt # "?" =>
          /\ fmt \in {"A", "B", "C", "Z", "U"}
          /\ a => fmt = "A"
          /\ ~a /\ b => fmt = "B"
          /\ ~a /\ ~b /\ c => fmt = "C"
          /\ ~a /\ ~b /\ ~c /\ AllWhitespace(d) => fmt = "Z"
          /\ ~a /\ ~b /\ ~c /\ ~AllWhitespace(d) => fmt = "U"

\* A text holding all three signatures was detected as A
SignaturesCoexist ==
  \E w \in Workers :
    /\ input[w].format = "A"
    /\ Contains(input[w].data, SigB)
    /\ Contains(input[w].data, SigC)

\* C2: extractEbupot runs Extractor A for format A, B for B and C for C; for
\* any other format no extractor runs, nothing is raised and every returned
\* record is the empty object (no field at all).
DispatchRoutes ==
  \A w \in Workers :
    LET f   == frame[w]
        fmt == input[w].format
    IN  /\ f.pc # "idle" /\ fmt \in Layouts => f.fn = fmt
        /\ f.pc # "idle" /\ fmt \notin Layouts =>
              /\ f.fn = "none"
              /\ f.pc \in {"return", "done"}
              /\ f.idx = 0
              /\ DOMAIN f.ret = {}
        /\ fmt \notin Layouts =>
              \A k \in 1..Len(results[w]) : DOMAIN results[w][k] = {}

\* A text that holds Extractor A's anchor was dispatched with format U and returned
UnknownFormatReturned ==
  \E w \in Workers :
    /\ input[w].format = "U"
    /\ Contains(input[w].data, AnchorA)
    /\ Len(results[w]) >= 1


\* the state in which an extractor's loop breaks
Terminal(fn) == IF fn = "A" THEN 14 ELSE 12

\* C3: every extractor run ends: a run never takes more steps than there are
\* lines, every pass of the loop has taken one more line, a run that is
\* over either broke out of the loop in its terminal state (A: 14, B: 12,
\* C: 12) or has taken every line, and no run is cut short by an exception
\* (so the lines left to take, which never go below zero, shrink with every
\* pass until the run is over).
ExtractorTerminates ==
  \A w \in Workers :
    LET f == frame[w]
    IN  /\ f.steps = f.idx
        /\ f.idx <= Len(f.lines)
        /\ f.pc = "done" /\ f.fn \in Layouts =>
              \/ f.brk /\ f.state = Terminal(f.fn)
              \/ ~f.brk /\ f.idx = Len(f.lines)
        /\ f.pc # "raised"

\* Extractor A broke out of its loop in state 14 with lines left over
BrokeBeforeEnd ==
  \E w \in Workers :
    LET f == frame[w]
    IN  f.pc = "done" /\ f.fn = "A" /\ f.brk /\ f.state = 14 /\ f.idx < Len(f.lines)

\* The scanning states of an extractor: those that wait for an anchor line
ScanStates(fn) ==
  IF fn = "A" THEN {2, 4, 5, 6, 7, 8, 9, 10, 11}
  ELSE IF fn = "B" THEN {3, 5, 9, 11}
  ELSE {}

\* line is the anchor that scanning state s of extractor fn waits for
Awaited(fn, s, line) ==
  IF fn = "A"
  THEN CASE s = 2  -> line = L_yyyy
         [] s = 4  -> line = L_Tanggal
         [] s = 5  -> line = L_B9
         [] s = 6  -> line = L_C1
         [] s = 7  -> line = L_NPWP
         [] s = 8  -> line = L_NamaC2
         [] s = 9  -> line = L_mmyyyy
         [] s = 10 -> line = L_C4
         [] s = 11 -> Contains(line, AnchorC)
         [] OTHER  -> FALSE
  ELSE CASE s = 3  -> line = L_B1B6
         [] s = 5  -> line = L_ddmmyyyy
         [] s = 9  -> SubSeq(line, 1, Len(L_Identitas)) = L_Identitas
         [] s = 11 -> line = L_C2Nama
         [] OTHER  -> FALSE

Fields == {"h1", "b1", "b2", "b7", "b8", "c1", "c3"}

\* The first state of extractor fn whose handler assigns the field; 99 for a
\* field the extractor never assigns
FirstAssigned(fn, field) ==
  IF fn = "A"
  THEN CASE field = "b7" -> 1 [] field = "b8" -> 5 [] field = "c1" -> 8
         [] field = "c3" -> 10 [] field = "h1" -> 12 [] field = "b1" -> 13
         [] field = "b2" -> 14
  ELSE IF fn = "B"
  THEN CASE field = "h1" -> 2 [] field = "b1" -> 4 [] field = "b2" -> 4
         [] field = "b7" -> 6 [] field = "c1" -> 10 [] field = "c3" -> 12
         [] field = "b8" -> 99
  ELSE CASE field = "h1" -> 1 [] field = "b1" -> 6 [] field = "b2" -> 6
         [] field = "c1" -> 9 [] field = "b7" -> 11 [] field = "b8" -> 11
         [] field = "c3" -> 12

\* C4: a scanning state is left only by the line it waits for, so while its
\* anchor does not come the machine stays in it; a run that is over in a
\* scanning state has taken every line without breaking or raising; and, in
\* any state the machine is in, every field that only this or a later state
\* assigns still holds its default, also in the record returned.
MissingAnchorHalts ==
  \A w \in Workers :
    LET f == frame[w]
    IN  f.fn \in Layouts /\ f.pc # "idle" =>
          /\ f.pc # "raised"
          /\ f.handler \in ScanStates(f.fn) /\ f.state # f.handler =>
                Awaited(f.fn, f.handler, f.line)
          /\ f.pc = "done" /\ f.state \in ScanStates(f.fn) =>
                /\ ~f.brk
                /\ f.idx = Len(f.lines)
                /\ results[w][Len(results[w])] = f.ret
          /\ ~f.brk =>
                \A field \in Fields :
                  FirstAssigned(f.fn, field) >= f.state => f.ret[field] = << >>

\* Extractor A returned from state 8: 'Nama Wajib PajakC.2:' never came, the
\* earlier fields are set, the later ones are not
HaltedInState8 ==
  \E w \in Workers :
    LET f == frame[w]
    IN  /\ f.pc = "done" /\ f.fn = "A" /\ f.state = 8
        /\ f.buffer # << >>
        /\ f.ret.b7 # << >> /\ f.ret.b8 # << >>
        /\ f.ret.c1 = << >> /\ f.ret.c3 = << >> /\ f.ret.h1 = << >>

\* the entry anchor of an extractor
EntryAnchor(fn) == IF fn = "A" THEN AnchorA ELSE IF fn = "B" THEN AnchorB ELSE AnchorC

\* C5: an extractor's lines are those of the text from the first occurrence
\* of its entry anchor on (nothing before the anchor is fed to the machine),
\* and a run on a text that does not hold the entry anchor returns a record
\* of defaults only.
EntryAnchorOnly ==
  \A w \in Workers :
    LET f      == frame[w]
        d      == input[w].data
        anchor == EntryAnchor(f.fn)
    IN  f.fn \in Layouts /\ f.pc # "idle" =>
          /\ Contains(d, anchor) =>
                \E k \in 1..Len(d) :
                  /\ SubSeq(d, k, k + Len(anchor) - 1) = anchor
                  /\ ~Contains(SubSeq(d, 1, k + Len(anchor) - 2), anchor)
                  /\ Join(f.lines) = SubSeq(d, k, Len(d))
          /\ ~Contains(d, anchor) /\ f.pc = "done" => f.ret = NewRecord

\* C6: the calls a worker makes with the same text and format all return the
\* same record, and whatever the call before left behind, a call starts its
\* loop from fresh locals (state 0, empty buffers, a record of defaults).
ExtractionIdempotent ==
  \A w \in Workers :
    LET f == frame[w]
    IN  /\ \A i, j \in 1..Len(results[w]) : results[w][i] = results[w][j]
        /\ f.pc = "loop" /\ f.idx = 0 =>
              /\ f.state = 0 /\ f.buffer = << >> /\ f.bufferLines = << >>
              /\ ~f.b7 /\ ~f.brk /\ f.ret = NewRecord

\* Extractor A returned twice, the first run having left text in its buffer
ReturnedTwice ==
  \E w \in Workers :
    LET f == frame[w]
    IN  /\ Len(results[w]) >= 2 /\ f.fn = "A" /\ f.pc = "done"
        /\ f.buffer # << >> /\ f.ret.b8 # << >>

ScalarFields == {"h1", "b1", "b2", "c1", "c3"}

\* The state of extractor fn whose handler assigns the scalar field (the later
\* one where two do: Extractor C assigns c1 in state 9 or in state 10)
AssignState(fn, field) ==
  IF fn = "A"
  THEN CASE field = "c1" -> 8 [] field = "c3" -> 10 [] field = "h1" -> 12
         [] field = "b1" -> 13 [] field = "b2" -> 14
  ELSE IF fn = "B"
  THEN CASE field = "h1" -> 2 [] field = "b1" -> 4 [] field = "b2" -> 4
         [] field = "c1" -> 10 [] field = "c3" -> 12
  ELSE CASE field = "h1" -> 1 [] field = "b1" -> 6 [] field = "b2" -> 6
         [] field = "c1" -> 10 [] field = "c3" -> 12

\* The machine has passed the state that assigns the field: it is in a later
\* state or, for the field of the terminal state, it broke out of the loop
Passed(f, field) ==
  IF AssignState(f.fn, field) = Terminal(f.fn)
  THEN f.brk
  ELSE f.state > AssignState(f.fn, field)

\* The worker's extractor has returned from a text that holds its entry anchor
ReturnedAnchored(w) ==
  /\ frame[w].fn \in Layouts
  /\ frame[w].pc = "done"
  /\ Contains(input[w].data, EntryAnchor(frame[w].fn))

\* C7 as claimed (for the texts that hold the extractor's entry anchor): in
\* the record returned, every scalar field whose assigning state the machine
\* has passed is non-empty.
AssignedFieldsNonEmpty ==
  \A w \in Workers :
    ReturnedAnchored(w) =>
      \A field \in ScalarFields :
        Passed(frame[w], field) => frame[w].ret[field] # << >>

\* The last pass of the loop ran the handler of state k of extractor fn
JustHandled(f, fn, k) == f.fn = fn /\ f.pc # "idle" /\ f.handler = k /\ f.idx > 0

\* C7: once its assigning state is passed, certificateDate (c3) is non-empty
\* in all three extractors, and so are Extractor A's amountRef1 (b1) and the
\* taxpayerId (c1) Extractor C takes in state 9; the other fields are cut
\* from the line unvalidated and are empty exactly when the line has no
\* character where they are cut (for the fields of Extractor C that are
\* stripped of whitespace: no character that is not whitespace).
GuaranteedFieldsNonEmpty ==
  \A w \in Workers :
    LET f    == frame[w]
        line == f.line
        r    == f.ret
    IN  f.fn \in Layouts /\ f.pc # "idle" =>
          /\ Passed(f, "c3") => r.c3 # << >>
          /\ f.fn = "A" /\ Passed(f, "b1") => Len(r.b1) > 4
          /\ JustHandled(f, "C", 9) /\ f.state = 11 => r.c1 # << >>
          /\ JustHandled(f, "A", 12) => (r.h1 = << >> <=> line = << >>)
          /\ JustHandled(f, "A", 14) => (r.b2 = << >> <=> line = << >>)
          /\ JustHandled(f, "B", 2) => (r.h1 = << >> <=> line = << >>)
          /\ JustHandled(f, "B", 4) =>
                /\ r.b1 = << >> <=> line = << >>
                /\ r.b2 = << >> <=> line = << >>
          /\ JustHandled(f, "B", 10) => (r.c1 = << >> <=> line = << >>)
          /\ JustHandled(f, "C", 1) => (r.h1 = << >> <=> AllWhitespace(line))
          /\ JustHandled(f, "C", 6) =>
                /\ r.b1 = << >> <=> line = << >>
                /\ r.b2 = << >> <=>
                     \/ ~Contains(line, <<"-">>) /\ Len(line) <= 4
                     \/ \E k \in 1..Len(line) :
                          /\ line[k] = "-"
                          /\ \A j \in 1..(k - 1) : line[j] # "-"
                          /\ Len(line) <= k + 4
          /\ JustHandled(f, "C", 10) => (r.c1 = << >> <=> AllWhitespace(line))

\* Extractor A ran to its break with an empty certificateNumber (h1) while
\* amountRef1 and certificateDate are set
EmptyCertificateNumber ==
  \E w \in Workers :
    LET f == frame[w]
    IN  /\ f.fn = "A" /\ f.brk /\ ReturnedAnchored(w)
        /\ f.ret.h1 = << >> /\ f.ret.b1 # << >> /\ f.ret.c3 # << >>

\* s has the form y-m-d of a date entry: at most 4, 2 and 2 characters around
\* two '-' separators (10 characters when the date is complete)
IsDateEntry(s) ==
  \E y \in 0..4, m \in 0..2 :
    /\ Len(s) >= y + m + 2
    /\ Len(s) <= y + m + 4
    /\ s[y + 1] = "-"
    /\ s[y + m + 2] = "-"

\* a is a flat sequence [name, date, name, date, ...]
Alternates(a) ==
  /\ Len(a) % 2 = 0
  /\ \A k \in 1..Len(a) : k % 2 = 0 => IsDateEntry(a[k])

\* C8 as claimed (for the texts that hold the extractor's entry anchor): in
\* the record returned, supportingDocuments (b7) and priorDocuments (b8) are
\* each empty or an alternation of names and dates.
DocumentsAlternate ==
  \A w \in Workers :
    ReturnedAnchored(w) =>
      Alternates(frame[w].ret.b7) /\ Alternates(frame[w].ret.b8)

\* C8: supportingDocuments (b7) is empty, or the one line captured by state 1
\* of A (while state 3 has not handled its line) or by state 6 of B (while
\* state 7 has not), or three entries [captured line, name, date] -- in B
\* three empty strings when the line after 'ddmmyyyy' is 'B.8'; priorDocuments
\* (b8) is empty or two entries [name, date], and always empty in B; in C at
\* most one of the two is non-empty.
DocumentsShape ==
  \A w \in Workers :
    LET f  == frame[w]
        b7 == f.ret.b7
        b8 == f.ret.b8
    IN  f.fn \in Layouts /\ f.pc # "idle" =>
          /\ Len(b7) \in {0, 1, 3}
          /\ Len(b7) = 1 =>
                \/ f.fn = "A" /\ f.state \in {2, 3}
                \/ f.fn = "B" /\ f.state = 7
          /\ Len(b7) = 3 =>
                \/ IsDateEntry(b7[3])
                \/ f.fn = "B" /\ b7 = << << >>, << >>, << >> >>
          /\ Len(b8) \in {0, 2}
          /\ Len(b8) = 2 => IsDateEntry(b8[2])
          /\ f.fn = "B" => b8 = << >>
          /\ f.fn = "C" => b7 = << >> \/ b8 = << >>

\* Extractor A returned three supporting entries and two prior entries
TripleAndPair ==
  \E w \in Workers :
    /\ ReturnedAnchored(w)
    /\ frame[w].fn = "A"
    /\ Len(frame[w].ret.b7) = 3
    /\ Len(frame[w].ret.b8) = 2

\* exactly 15 characters, all of them digits
Is15Digits(s) == Len(s) = 15 /\ \A k \in 1..Len(s) : s[k] \in Digits

\* C9 as claimed (for the texts that hold the extractor's entry anchor): in
\* the record returned, taxpayerId (c1) is empty or exactly 15 digits.
TaxpayerIdIs15Digits ==
  \A w \in Workers :
    ReturnedAnchored(w) =>
      frame[w].ret.c1 = << >> \/ Is15Digits(frame[w].ret.c1)

\* the characters of line that are not whitespace are 15 digits
Strips15Digits(line) ==
  /\ Cardinality({k \in 1..Len(line) : line[k] \notin Whitespace}) = 15
  /\ \A k \in 1..Len(line) : line[k] \in Whitespace \cup Digits

\* C9: taxpayerId (c1) is taken from the text unvalidated.  The one Extractor
\* C takes in state 9 is exactly 15 digits.  In A it is the concatenation of
\* the lines between ':NPWP' and 'Nama Wajib PajakC.2:'; in B it has at most
\* 15 characters and is 15 digits exactly when the first 15 characters of
\* its line are; in state 10 of C it holds no whitespace and is 15 digits
\* exactly when the line, whitespace apart, is.
TaxpayerIdUnvalidated ==
  \A w \in Workers :
    LET f    == frame[w]
        line == f.line
        c1   == f.ret.c1
    IN  f.fn \in Layouts /\ f.pc # "idle" =>
          /\ ~Passed(f, "c1") => c1 = << >>
          /\ JustHandled(f, "C", 9) /\ f.state = 11 => Is15Digits(c1)
          /\ JustHandled(f, "C", 9) /\ f.state = 10 => c1 = << >> /\ ~Strips15Digits(line)
          /\ JustHandled(f, "C", 10) =>
                /\ \A k \in 1..Len(c1) : c1[k] \notin Whitespace
                /\ Is15Digits(c1) <=> Strips15Digits(line)
          /\ JustHandled(f, "B", 10) =>
                /\ Len(c1) <= 15
                /\ Is15Digits(c1) <=> Len(line) >= 15 /\ IsDigits(SubSeq(line, 1, 15))
          /\ JustHandled(f, "A", 8) /\ f.state = 9 =>
                \E j \in 1..(f.idx - 1) :
                  /\ f.lines[j] = L_NPWP
                  /\ \A k \in (j + 1)..(f.idx - 1) : f.lines[k] # L_NamaC2
                  /\ c1 = Concat(SubSeq(f.lines, j + 1, f.idx - 1))

\* Extractor B returned a taxpayerId of 15 characters that are not digits
TaxpayerIdNotDigits ==
  \E w \in Workers :
    /\ ReturnedAnchored(w)
    /\ frame[w].fn = "B"
    /\ Len(frame[w].ret.c1) = 15
    /\ ~IsDigits(frame[w].ret.c1)

\* t lists every index 0..n-1 exactly once
IsPermutation(t, n) ==
  /\ Len(t) = n
  /\ \A i \in 0..(n - 1) : Cardinality({k \in 1..n : t[k] = i}) = 1

\* how often each character occurs in s
BagOf(s) ==
  [c \in {s[k] : k \in 1..Len(s)} |-> Cardinality({k \in 1..Len(s) : s[k] = c})]

\* the 8 characters of a 10-character date entry that are not its separators
DateCharacters(d) == SubSeq(d, 1, 4) \o SubSeq(d, 6, 7) \o SubSeq(d, 9, 10)

\* C10: the taxpayer table lists each index 0..14 once and the two date
\* tables each index 0..7 once; character k of the taxpayerId decoded from a
\* 15-character line is the line's character at the k-th listed index, so
\* the taxpayerId holds each character of the line exactly once; and a date
\* decoded from 8 characters (the last 8 of the line in state 7, the line in
\* state 12) holds, around its two '-', each of them exactly once.
DescramblingIsBijective ==
  /\ IsPermutation(NpwpTable, 15)
  /\ IsPermutation(RandDateTable, 8)
  /\ IsPermutation(CertDateTable, 8)
  /\ \A w \in Workers :
       LET f    == frame[w]
           line == f.line
       IN  /\ JustHandled(f, "B", 10) /\ Len(line) = 15 =>
                 /\ Len(f.ret.c1) = 15
                 /\ \A k \in 1..15 : f.ret.c1[k] = line[NpwpTable[k] + 1]
                 /\ BagOf(f.ret.c1) = BagOf(line)
           /\ JustHandled(f, "B", 7) /\ Len(line) >= 8 =>
                 LET date == f.ret.b7[3]
                 IN  /\ Len(date) = 10 /\ date[5] = "-" /\ date[8] = "-"
                     /\ BagOf(DateCharacters(date)) =
                          BagOf(SubSeq(line, Len(line) - 7, Len(line)))
           /\ JustHandled(f, "B", 12) /\ Len(line) = 8 =>
                 LET date == f.ret.c3
                 IN  /\ Len(date) = 10 /\ date[5] = "-" /\ date[8] = "-"
                     /\ BagOf(DateCharacters(date)) = BagOf(line)

\* Extractor B ran to its break, having decoded a taxpayer line of 15
\* different characters, a document date and the certificate date
DecodedDistinctCharacters ==
  \E w \in Workers :
    LET f == frame[w]
    IN  /\ ReturnedAnchored(w) /\ f.fn = "B" /\ f.brk
        /\ Len(f.ret.c1) = 15
        /\ Cardinality({f.ret.c1[k] : k \in 1..15}) = 15
        /\ Len(f.ret.b7) = 3 /\ Len(f.ret.b7[3]) = 10
        /\ Len(f.ret.c3) = 10

\* b occurs in a right after a
FollowedBy(seq, a, b) == \E k \in 1..(Len(seq) - 1) : seq[k] = a /\ seq[k + 1] = b

\* The six values the layout A scenario names
ScenarioYield(ret) ==
  /\ FollowedBy(ret.b7, <<"I", "N", "V", "O", "I", "C", "E", "-", "0", "0", "1", " ">>, <<"2", "0", "2", "3", "-", "0", "8", "-", "0", "5">>)
  /\ ret.c1 = <<"1", "2", "3", "4", "5", "6", "7", "8", "9", "0", "1", "2", "3", "4", "5">>
  /\ ret.c3 = <<"2", "0", "2", "4", "-", "0", "1", "-", "0", "1">>
  /\ ret.h1 = <<"C", "E", "R", "T", "-", "9", "9">>
  /\ ret.b1 = <<"1", "2", "3", "4", "5">>
  /\ ret.b2 = <<"A", "M", "T", "-", "2">>

\* Extractor A has returned for a text of the given documents
ScenarioReturned(w, docs) ==
  /\ frame[w].fn = "A" /\ frame[w].pc = "done"
  /\ input[w].data \in { Join(d) : d \in docs }

\* C11 as stated: Extractor A yields the six values of the scenario for the
\* text in which '123456789012345Nama Wajib PajakC.2:' and '01012024C.4' are
\* single lines.
ScenarioGluedLines ==
  \A w \in Workers : ScenarioReturned(w, GluedScenarioDocs) => ScenarioYield(frame[w].ret)

\* C11, amended: Extractor A yields the six values of the scenario when
\* 'B.9', 'C.1', 'Nama Wajib PajakC.2:' and 'C.4' are lines of their own,
\* '123456789012345' is the line between ':NPWP' and 'Nama Wajib PajakC.2:'
\* and '01012024' the line between 'mmyyyy' and 'C.4'.
ScenarioSeparateLines ==
  \A w \in Workers :
    ScenarioReturned(w, ScenarioDocs) =>
      /\ ScenarioYield(frame[w].ret)
      /\ frame[w].brk
      /\ results[w][Len(results[w])] = frame[w].ret

\* Extractor A has returned for a scenario text with lines before 'B.9' and 'C.1'
ScenarioExtracted ==
  \E w \in Workers :
    /\ ScenarioReturned(w, ScenarioDocs)
    /\ Len(frame[w].ret.b8) = 2
    /\ frame[w].state = 14

NotSpace(c) == c # " "

\* positions of the characters of line that are not a space
NonSpaceAt(line) == { k \in 1..Len(line) : NotSpace(line[k]) }

\* position of the 8th character from the end that is not a space
EighthFromEnd(line) ==
  CHOOSE p \in NonSpaceAt(line) : Cardinality({ k \in NonSpaceAt(line) : k >= p }) = 8

\* the line Extractor C hands to splitDocDate in state 11
SplitLine(f) == IF f.b7 THEN f.bufferLines[2] ELSE f.bufferLines[1]

\* the [docName, isoDate] pair state 11 appended
SplitPair(f) ==
  LET a == IF f.b7 THEN f.ret.b7 ELSE f.ret.b8
  IN  <<a[Len(a) - 1], a[Len(a)]>>

\* C12: whenever state 11 of Extractor C has split a line, no error was
\* raised, and if the line holds at least 8 characters that are not a space,
\* the date is the ISO form of the last 8 of them in reading order and the
\* docName is the part of the line to the left of the leftmost of them.
SplitsLastEight ==
  \A w \in Workers :
    LET f == frame[w]
    IN  f.fn = "C" /\ f.handler = 11 /\ Contains(input[w].data, AnchorC) =>
          /\ f.pc # "raised"
          /\ LET line == SplitLine(f)
                 p    == EighthFromEnd(line)
             IN  Cardinality(NonSpaceAt(line)) >= 8 =>
                   /\ SplitPair(f)[2] =
                        ddmmyyyyToIso(SelectSeq(SubSeq(line, p, Len(line)), NotSpace))
                   /\ SplitPair(f)[1] = SubSeq(line, 1, p - 1)

\* The record a run on its own returns
RECURSIVE AloneReturns(_)
AloneReturns(f) == IF LoopRuns(f) THEN AloneReturns(Advance(f, BodyOf(f))) ELSE f.ret

\* The frame a call of extractEbupot starts from when nothing else has run
AloneCall(w) == extractEbupot(IdleFrame, input[w].data, input[w].format)

\* C13: however the steps of two runs interleave, the record a run returns
\* is the record the same run returns on its own.
ParallelRunsIndependent ==
  \A w \in Workers :
    frame[w].pc = "done" => results[w][Len(results[w])] = AloneReturns(AloneCall(w))

\* Two runs of Extractor A in flight at once, one accumulating the taxpayer
\* number while the other has not reached its accumulating states
RunsInterleaved ==
  /\ frame["w1"].pc = "loop" /\ frame["w1"].fn = "A"
  /\ frame["w1"].state = 8 /\ frame["w1"].buffer # << >>
  /\ frame["w2"].pc = "loop" /\ frame["w2"].fn = "A"
  /\ frame["w2"].state = 5 /\ frame["w2"].steps > 0
  /\ Len(results["w2"]) = 1

\* What state 6 of Extractor B left when the line that marks a missing
\* document reference is marker: three empty entries and state 8 on that
\* line, the raw line and state 7 on any other
Handled6(f, marker) ==
  IF f.line = marker
  THEN f.state = 8 /\ f.ret.b7 = << << >>, << >>, << >> >>
  ELSE f.state = 7 /\ f.ret.b7 = <<f.line>>

\* C14 as stated: state 6 of Extractor B pushes three empty strings and jumps
\* to state 8 when its line equals 'B.9', and pushes the raw line and moves
\* to state 7 on any other line.
ReferenceAbsentOnB9 ==
  \A w \in Workers : JustHandled(frame[w], "B", 6) => Handled6(frame[w], L_B9)

\* C14, amended: state 6 of Extractor B pushes three empty strings and jumps
\* to state 8 when its line equals 'B.8', and pushes the raw line and moves
\* to state 7 on any other line ('B.9' included).
ReferenceAbsentOnB8 ==
  \A w \in Workers : JustHandled(frame[w], "B", 6) => Handled6(frame[w], L_B8)

\* State 6 of Extractor B has taken the jump to state 8
JumpedOverReference ==
  \E w \in Workers :
    /\ JustHandled(frame[w], "B", 6)
    /\ frame[w].line = L_B8 /\ frame[w].state = 8
    /\ Contains(input[w].data, AnchorB)

\* C15: state 8 of Extractor B takes no line of its own, so the line right
\* after the line of state 7 (or of state 6 when it jumps) is tested by
\* state 9: if it starts with 'C. IDENTITAS PEMOTONG' the machine is in
\* state 10 once that line is handled, and state 10 decodes its line into
\* taxpayerId.
StateEightTakesNoLine ==
  \A w \in Workers :
    LET f == frame[w]
    IN  /\ JustHandled(f, "B", 8) /\ StartsWith(f.line, L_Identitas) => f.state = 10
        /\ JustHandled(f, "B", 10) => f.ret.c1 = Pick(f.line, NpwpTable)

\* C16: in a run of Extractor C that has passed state 11, l8, l9 and l10
\* being the lines handled in states 8, 9 and (when reached) 10: if l9
\* without its whitespace is 15 digits, taxpayerId is that, priorDocuments is
\* the splitDocDate pair of l8 and supportingDocuments is empty; otherwise
\* taxpayerId is l10 without its whitespace, supportingDocuments is l8
\* followed by the splitDocDate pair of l9 and priorDocuments is empty.
\* Exactly one of the two sequences is non-empty.
BufferedLinesRouted ==
  \A w \in Workers :
    LET f == frame[w]
    IN  f.fn = "C" /\ f.pc # "idle" /\ f.state = 12 =>
          LET l8   == f.lines[9]
              l9   == f.lines[10]
              npwp == StripWs(l9)
          IN  /\ f.pc # "raised"
              /\ IF Is15Digits(npwp)
                 THEN /\ f.ret.c1 = npwp
                      /\ f.ret.b8 = splitDocDate(l8)
                      /\ f.ret.b7 = << >>
                 ELSE /\ f.ret.c1 = StripWs(f.lines[11])
                      /\ f.ret.b7 = <<l8>> \o splitDocDate(l9)
                      /\ f.ret.b8 = << >>
              /\ (f.ret.b7 = << >>) # (f.ret.b8 = << >>)

\* Extractor C has passed state 11 with a prior document and no supporting one
PriorDocumentRouted ==
  \E w \in Workers :
    LET f == frame[w]
    IN  /\ f.fn = "C" /\ f.pc = "loop" /\ f.state = 12 /\ ~f.b7
        /\ Len(f.ret.b8) = 2 /\ f.ret.b8[1] # << >>
        /\ Contains(input[w].data, AnchorC)

\* The first position from `from` on at which lines holds target, 0 if none
Scan(lines, from, target) ==
  IF \E k \in from..Len(lines) : lines[k] = target
  THEN CHOOSE k \in from..Len(lines) :
         lines[k] = target /\ \A j \in from..(k - 1) : lines[j] # target
  ELSE 0

\* The lines at positions a..b put one after the other, without separator
Between(lines, a, b) == Concat(SubSeq(lines, a, b))

\* C17: in Extractor A, buffer holds nothing outside states 5, 8 and 10 and,
\* inside one of them, exactly the lines taken since the state was entered;
\* so priorDocuments is built from the lines strictly between 'Tanggal' and
\* 'B.9' only (and is empty when they hold no character), taxpayerId is the
\* lines strictly between ':NPWP' and 'Nama Wajib PajakC.2:' put together, and
\* certificateDate is the ISO form of the lines strictly between 'mmyyyy' and
\* 'C.4' put together.
BufferIsolated ==
  \A w \in Workers :
    LET f     == frame[w]
        lines == f.lines
        yyyy  == Scan(lines, 3, L_yyyy)
        tgl   == Scan(lines, yyyy + 2, L_Tanggal)
        b9    == Scan(lines, tgl + 1, L_B9)
        c1    == Scan(lines, b9 + 1, L_C1)
        npwp  == Scan(lines, c1 + 1, L_NPWP)
        nama  == Scan(lines, npwp + 1, L_NamaC2)
        mmy   == Scan(lines, nama + 1, L_mmyyyy)
        c4    == Scan(lines, mmy + 1, L_C4)
        prior == Between(lines, tgl + 1, b9 - 1)
    IN  f.fn = "A" /\ f.pc # "idle" =>
          /\ f.state \notin {5, 8, 10} => f.buffer = << >>
          /\ f.state = 5  => f.buffer = Between(lines, tgl + 1, f.idx)
          /\ f.state = 8  => f.buffer = Between(lines, npwp + 1, f.idx)
          /\ f.state = 10 => f.buffer = Between(lines, mmy + 1, f.idx)
          /\ f.state >= 6 =>
               f.ret.b8 = IF prior = << >> THEN << >>
                          ELSE <<Slice(prior, 0, -8), ddmmyyyyToIso(SliceFrom(prior, -8))>>
          /\ f.state >= 9 => f.ret.c1 = Between(lines, npwp + 1, nama - 1)
          /\ f.state >= 11 => f.ret.c3 = ddmmyyyyToIso(Between(lines, mmy + 1, c4 - 1))

\* Extractor A has filled priorDocuments, a taxpayerId gathered from two
\* lines and certificateDate
ThreeBuffersFilled ==
  \E w \in Workers :
    LET f == frame[w]
    IN  /\ f.fn = "A" /\ f.pc = "loop" /\ f.state = 11
        /\ f.ret.b8 # << >> /\ Len(f.ret.c1) > 15 /\ Len(f.ret.c3) = 10
        /\ Contains(input[w].data, AnchorA)

\* The jumps over a state: Extractor B from 6 to 8, Extractor C from 9 to 11
IsJump(fn, from, to) ==
  \/ fn = "B" /\ from = 6 /\ to = 8
  \/ fn = "C" /\ from = 9 /\ to = 11

\* C19: every pass of an extractor's loop takes the next line and hands it
\* to the handler of the current state alone; the state counter does not
\* decrease and rises by at most one, except for the jumps 6 to 8 of
\* Extractor B and 9 to 11 of Extractor C; and a scalar field changes only
\* in a pass that takes the machine past the state that assigns it, so no
\* field is assigned again later in the run.
StateCounterMonotone ==
  [][\A w \in Workers :
       LET f == frame[w]
           g == frame'[w]
       IN  f.pc = "loop" /\ g.steps = f.steps + 1 =>
             /\ g.fn = f.fn /\ g.lines = f.lines
             /\ g.idx = f.idx + 1 /\ g.line = f.lines[g.idx] /\ g.handler = f.state
             /\ g.state >= f.state
             /\ g.state <= f.state + 1 \/ IsJump(f.fn, f.state, g.state)
             /\ \A field \in ScalarFields :
                  /\ Passed(f, field) => g.ret[field] = f.ret[field]
                  /\ g.ret[field] # f.ret[field] => Passed(g, field)]_vars

\* Extractor C has taken its jump from state 9 to state 11, assigning taxpayerId
JumpedToEleven ==
  \E w \in Workers :
    /\ JustHandled(frame[w], "C", 9)
    /\ frame[w].state = 11 /\ frame[w].ret.c1 # << >>
    /\ Contains(input[w].data, AnchorC)

\* downloadFile has left makeRequest: it returned a response or threw
RequestSettled == server.pc \in {"write", "read", "parse", "unlink", "rmdir", "finished"}

\* The parts of C18 that do not depend on the status of the first GET: a
\* retry that is not 200 fails the call, no call issues more than two GETs,
\* and only a response with status 200 is piped to the destination.
RetryBounded ==
  /\ server.gets <= 2 /\ server.refreshes <= 1
  /\ server.gets = 2 => server.refreshes = 1 /\ server.s1 # 200
  /\ RequestSettled /\ server.gets = 2 /\ server.s2 # 200 =>
       server.error \in {"get", "retry"} /\ server.piped = 0
  /\ server.piped \in {0, 200}
  /\ server.file => server.piped = 200

CleansUpOnEveryPath ==
  server.pc = "finished" =>
    /\ ~server.file /\ ~server.dir
    /\ server.raisedIn # "unlink"

====
